---------------------------- MODULE Spec2Model ----------------------------
(***************************************************************************)
(* Model of the file catalog (src-tauri/src/file_storage.rs), of the Tauri *)
(* commands that expose it (src-tauri/src/lib.rs), of the chunker and of   *)
(* the PDF and DOCX extractors (src-tauri/src/extract.rs).                 *)
(*                                                                         *)
(* The specifications:                                                     *)
(*   Spec      - the catalog: two callers run catalog commands, each       *)
(*               command being a sequence of file-system steps with no     *)
(*               locking between them;                                     *)
(*   ChunkSpec - FileStorage::create_smart_chunks, one loop iteration per  *)
(*               step;                                                     *)
(*   CtxSpec   - one command that reads the context, from any catalog;     *)
(*   ExtractSpec - extract_pdf_text and extract_docx_text of extract.rs,   *)
(*               one strategy or one XML event per step.                   *)
(***************************************************************************)
EXTENDS Integers, Sequences, FiniteSets, TLC

VARIABLES
    index,      \* uploads/index.json: the persisted sequence of FileInfo
    blobs,      \* uploads/<id>: function from the ids that have a blob to its bytes
    nup,        \* number of ids generated so far (Uuid::new_v4 is fresh each time)
    pc,         \* per caller: position inside the command it is running
    loc,        \* per caller: the locals of the command it is running
    last,       \* the command that returned, until the next command starts
    prev,       \* in brief, the command that returned before that
    live,       \* the records returned by an upload and not named by a destroy since
    raced,      \* a command has been started while another was in flight
    ncalls,     \* number of commands started
    nfaults,    \* number of file-system operations that have failed
    wiped,      \* a wipe_all has been started
    ck_pc,      \* chunker: "idle", "loop", "done" (returned) or "oom" (aborted)
    ck_n,       \* chunker: words.len()
    ck_start,   \* chunker: start
    ck_end,     \* chunker: end of the window pushed last
    ck_num,     \* chunker: chunk_num
    ck_chunks,  \* chunker: chunks
    ex_pc,      \* extractor: "idle", "pdf_mem", "pdf_path", "docx_walk" or "done"
    ex_doc,     \* extractor: the file it was called on
    ex_tried,   \* extractor: the PDF strategies called so far, in order
    ex_pos,     \* extractor: number of XML events read
    ex_in_text_node,  \* extractor: in_text_node
    ex_out      \* extractor: out while walking, then the value returned

catVars == <<index, blobs, nup, pc, loc, last, prev, live, raced, ncalls, nfaults, wiped>>
ckVars == <<ck_pc, ck_n, ck_start, ck_end, ck_num, ck_chunks>>
exVars == <<ex_pc, ex_doc, ex_tried, ex_pos, ex_in_text_node, ex_out>>
vars == <<index, blobs, nup, pc, loc, last, prev, live, raced, ncalls, nfaults, wiped,
          ck_pc, ck_n, ck_start, ck_end, ck_num, ck_chunks,
          ex_pc, ex_doc, ex_tried, ex_pos, ex_in_text_node, ex_out>>

\* Min with the slip of taking the larger (cmp::max)
Larger(a, b) == IF a < b THEN b ELSE a

Min(a, b) == IF a < b THEN a ELSE b

\* usize::saturating_sub
SaturatingSub(a, b) == IF a > b THEN a - b ELSE 0

(***************************************************************************)
(* The chunker.                                                            *)
(***************************************************************************)
CHUNK_SIZE == 1500
OVERLAP_SIZE == 200

\* largest word count fed to the chunker
MaxWords == 2900
\* number of chunks the process can hold before the allocation of one more fails
MaxChunks == 6

\* content.split_whitespace().collect(): the words of a content of n words,
\* each word standing for its position so that no two words are equal
Words(n) == [i \in 1..n |-> i]

\* the "(Part k/total)" total printed in the chunk title
PartTotal(n) == (n + CHUNK_SIZE - OVERLAP_SIZE - 1) \div (CHUNK_SIZE - OVERLAP_SIZE)

\* the words of one chunk: &words[start..end]
ChunkWords(c) == SubSeq(Words(ck_n), c.start + 1, c.end)

\* one pushed chunk: its title ("Part part/total", part = 0 when the title has
\* no part) and the slice of words it holds
Chunk(part, total, start, end) ==
    [part |-> part, total |-> total, start |-> start, end |-> end]

ChunkInit ==
    /\ ck_pc = "idle"
    /\ ck_n = 0
    /\ ck_start = 0
    /\ ck_end = 0
    /\ ck_num = 1
    /\ ck_chunks = <<>>

\* create_smart_chunks up to the loop: the early return for a small document
ChunkCall(n) ==
    /\ ck_pc = "idle"
    /\ ck_n' = n
    /\ ck_start' = 0
    /\ ck_end' = 0
    /\ ck_num' = 1
    /\ IF n <= CHUNK_SIZE
          THEN /\ ck_chunks' = <<Chunk(0, 0, 0, n)>>
               /\ ck_pc' = "done"
          ELSE /\ ck_chunks' = <<>>
               /\ ck_pc' = "loop"
    /\ UNCHANGED catVars
    /\ UNCHANGED exVars

\* one evaluation of the while condition and, when it holds, one loop body
ChunkIter ==
    /\ ck_pc = "loop"
    /\ IF ~(ck_start < ck_n)
          THEN /\ ck_pc' = "done"
               /\ UNCHANGED <<ck_start, ck_end, ck_num, ck_chunks>>
          ELSE IF Len(ck_chunks) >= MaxChunks
          THEN \* chunks.push cannot allocate: the process aborts
               /\ ck_pc' = "oom"
               /\ UNCHANGED <<ck_start, ck_end, ck_num, ck_chunks>>
          ELSE LET end == Min(ck_start + CHUNK_SIZE, ck_n)
                   title == IF ck_n > CHUNK_SIZE
                              THEN Chunk(ck_num, PartTotal(ck_n), ck_start, end)
                              ELSE Chunk(0, 0, ck_start, end)
                   start == SaturatingSub(end, OVERLAP_SIZE)
               IN  /\ ck_chunks' = Append(ck_chunks, title)
                   /\ ck_end' = end
                   /\ ck_start' = start
                   /\ ck_num' = ck_num + 1
                   /\ ck_pc' = IF start = end THEN "done" ELSE "loop"
    /\ UNCHANGED <<ck_n>>
    /\ UNCHANGED catVars
    /\ UNCHANGED exVars

\* the caller takes the result (or the process is restarted after the abort)
ChunkReturn ==
    /\ ck_pc \in {"done", "oom"}
    /\ ck_pc' = "idle"
    /\ ck_n' = 0
    /\ ck_start' = 0
    /\ ck_end' = 0
    /\ ck_num' = 1
    /\ ck_chunks' = <<>>
    /\ UNCHANGED catVars
    /\ UNCHANGED exVars

ChunkNext ==
    \/ \E n \in 0..MaxWords : ChunkCall(n)
    \/ ChunkIter
    \/ ChunkReturn

(***************************************************************************)
(* The extractors of extract.rs.  A text is the sequence of its characters. *)
(***************************************************************************)
\* number of paragraphs of a DOCX body
MaxParas == 2

HELLO == <<"H", "e", "l", "l", "o">>
WORLD == <<"W", "o", "r", "l", "d">>
\* a run that holds one preserved space
SPACE == <<" ">>
\* a run with a space on either side of its word
PADDED == <<" ", "H", "i", " ">>
\* a run with an escaped ampersand
AMP == <<"R", "&amp;", "D">>

\* char::is_whitespace
IsWhitespace(c) == c \in {" ", "\t", "\n", "\r"}

RECURSIVE TrimStart(_)
TrimStart(t) ==
    IF t # <<>> /\ IsWhitespace(Head(t)) THEN TrimStart(Tail(t)) ELSE t

RECURSIVE TrimEnd(_)
TrimEnd(t) ==
    IF t # <<>> /\ IsWhitespace(t[Len(t)]) THEN TrimEnd(SubSeq(t, 1, Len(t) - 1)) ELSE t

\* str::trim
Trim(t) == TrimEnd(TrimStart(t))

\* the file extract_pdf_text is called on: whether the path exists, whether
\* fs::metadata and fs::read succeed, and what each strategy of pdf_extract
\* makes of it
PdfTexts == {HELLO, <<>>, <<" ", "\n">>}
PdfOutcomes(err) ==
    {[ok |-> TRUE, text |-> t, err |-> ""] : t \in PdfTexts}
       \cup {[ok |-> FALSE, text |-> <<>>, err |-> err]}
PdfDocs ==
    {[kind |-> "pdf", exists |-> x, meta |-> m, read |-> r, mem |-> om, path |-> op] :
        x \in BOOLEAN, m \in BOOLEAN, r \in BOOLEAN,
        om \in PdfOutcomes("E_MEM"), op \in PdfOutcomes("E_PATH")}

\* what an extractor returns: Ok(text) of some kind
\*   "Text"             - the extracted text
\*   "NotFound"         - "[PDF file not found: {path}]"
\*   "NoSelectableText" - "[PDF appears to contain no selectable text ...]"
\*   "ExtractionFailed" - "[PDF extraction failed: {err} for file: {name}]"
\* or Err(kind)
ExOk(kind, text, err) == [ok |-> TRUE, kind |-> kind, text |-> text, err |-> err]
ExErr(kind) == [ok |-> FALSE, kind |-> kind, text |-> <<>>, err |-> kind]
NoOut == [ok |-> TRUE, kind |-> "none", text |-> <<>>, err |-> ""]
NoDoc == [kind |-> "none"]

\* AfterMem with the slip of retrying a blank text as well
AfterMemRetryBlank(o) ==
    IF o.ok /\ Trim(o.text) # <<>>
      THEN [next |-> "done", out |-> ExOk("Text", o.text, "")]
      ELSE [next |-> "pdf_path", out |-> NoOut]

\* the match on pdf_extract::extract_text_from_mem
AfterMem(o) ==
    IF o.ok /\ Trim(o.text) # <<>>
      THEN [next |-> "done", out |-> ExOk("Text", o.text, "")]
    ELSE IF o.ok
      THEN [next |-> "done", out |-> ExOk("NoSelectableText", <<>>, "")]
    ELSE [next |-> "pdf_path", out |-> NoOut]

\* the match on pdf_extract::extract_text
AfterPath(o) ==
    IF o.ok /\ Trim(o.text) # <<>> THEN ExOk("Text", o.text, "")
    ELSE IF o.ok THEN ExOk("NoSelectableText", <<>>, "")
    ELSE ExOk("ExtractionFailed", <<>>, o.err)

ExInit ==
    /\ ex_pc = "idle"
    /\ ex_doc = NoDoc
    /\ ex_tried = <<>>
    /\ ex_pos = 0
    /\ ex_in_text_node = FALSE
    /\ ex_out = NoOut

\* extract_pdf_text up to the first strategy
ExtractPdfCall(doc) ==
    /\ ex_pc = "idle"
    /\ ex_doc' = doc
    /\ IF ~doc.exists
         THEN ex_pc' = "done" /\ ex_out' = ExOk("NotFound", <<>>, "")
       ELSE IF ~doc.meta \/ ~doc.read
         THEN ex_pc' = "done" /\ ex_out' = ExErr("Io")
       ELSE ex_pc' = "pdf_mem" /\ ex_out' = NoOut
    /\ UNCHANGED <<ex_tried, ex_pos, ex_in_text_node>>
    /\ UNCHANGED <<catVars, ckVars>>

\* pdf_extract::extract_text_from_mem and the match on its result
ExtractPdfMem ==
    /\ ex_pc = "pdf_mem"
    /\ ex_tried' = Append(ex_tried, "mem")
    /\ ex_pc' = AfterMem(ex_doc.mem).next
    /\ ex_out' = AfterMem(ex_doc.mem).out
    /\ UNCHANGED <<ex_doc, ex_pos, ex_in_text_node>>
    /\ UNCHANGED <<catVars, ckVars>>

\* pdf_extract::extract_text and the match on its result
ExtractPdfPath ==
    /\ ex_pc = "pdf_path"
    /\ ex_tried' = Append(ex_tried, "path")
    /\ ex_pc' = "done"
    /\ ex_out' = AfterPath(ex_doc.path)
    /\ UNCHANGED <<ex_doc, ex_pos, ex_in_text_node>>
    /\ UNCHANGED <<catVars, ckVars>>

\* the texts of the text runs of a DOCX body
RunTexts == {HELLO, WORLD, SPACE, PADDED, AMP}

\* the file extract_docx_text is called on: the step of opening the
\* container that fails if any ("open": File::open, "zip": ZipArchive::new,
\* "nobody": word/document.xml is missing, "utf8": read_to_string), the text
\* of the one text run of each paragraph of its body, and whether the XML is
\* malformed at its end
DocxDocs ==
    {[kind |-> "docx", container |-> c, texts |-> <<>>, malformed |-> FALSE] :
        c \in {"open", "zip", "nobody", "utf8"}}
      \cup {[kind |-> "docx", container |-> "ok", texts |-> t, malformed |-> m] :
               t \in UNION {[1..n -> RunTexts] : n \in 0..MaxParas}, m \in BOOLEAN}

StartEvent(name) == [type |-> "Start", name |-> name, text |-> <<>>]
EndEvent(name) == [type |-> "End", name |-> name, text |-> <<>>]
TextEvent(t) == [type |-> "Text", name |-> "", text |-> t]

\* word/document.xml of a body of such paragraphs, element by element
RECURSIVE Paragraphs(_)
Paragraphs(texts) ==
    IF texts = <<>> THEN <<>>
    ELSE <<StartEvent("w:p"), StartEvent("w:r"), StartEvent("w:t"),
           TextEvent(Head(texts)),
           EndEvent("w:t"), EndEvent("w:r"), EndEvent("w:p")>>
            \o Paragraphs(Tail(texts))
DocumentXml(texts) ==
    <<StartEvent("w:document"), StartEvent("w:body")>>
        \o Paragraphs(texts)
        \o <<EndEvent("w:body"), EndEvent("w:document")>>

\* the events of a reader with trim_text(true): a text is trimmed, and is no
\* event when nothing is left of it
ReadEvents(xml) ==
    SelectSeq([i \in 1..Len(xml) |->
                  IF xml[i].type = "Text" THEN TextEvent(Trim(xml[i].text)) ELSE xml[i]],
              LAMBDA e : e.type # "Text" \/ e.text # <<>>)

\* name_bytes.ends_with: the last byte of the element names of a body
LastByte ==
    [n \in {"w:document", "w:body", "w:p", "w:r", "w:t"} |->
        CASE n = "w:document" -> "t"
          [] n = "w:body" -> "y"
          [] n = "w:p" -> "p"
          [] n = "w:r" -> "r"
          [] n = "w:t" -> "t"]
EndsWith(name, byte) == LastByte[name] = byte

\* BytesText::unescape
Unescape(t) == [i \in 1..Len(t) |-> IF t[i] = "&amp;" THEN "&" ELSE t[i]]

\* the position of the first line break of t, 0 if it has none
RECURSIVE FirstBreak(_, _)
FirstBreak(t, i) ==
    IF i > Len(t) THEN 0 ELSE IF t[i] = "\n" THEN i ELSE FirstBreak(t, i + 1)

\* str::lines
RECURSIVE Lines(_)
Lines(t) ==
    IF t = <<>> THEN <<>>
    ELSE LET k == FirstBreak(t, 1)
         IN  IF k = 0 THEN <<t>>
             ELSE <<SubSeq(t, 1, k - 1)>> \o Lines(SubSeq(t, k + 1, Len(t)))

\* Join with the slip of a space between the lines
RECURSIVE JoinSpaces(_)
JoinSpaces(ls) ==
    IF ls = <<>> THEN <<>>
    ELSE IF Len(ls) = 1 THEN ls[1]
    ELSE ls[1] \o <<" ">> \o JoinSpaces(Tail(ls))

\* join("\n")
RECURSIVE Join(_)
Join(ls) ==
    IF ls = <<>> THEN <<>>
    ELSE IF Len(ls) = 1 THEN ls[1]
    ELSE ls[1] \o <<"\n">> \o Join(Tail(ls))

\* the clean-up of out: its lines trimmed, the empty ones dropped
Cleaned(out) ==
    LET ls == Lines(out)
    IN  Join(SelectSeq([i \in 1..Len(ls) |-> Trim(ls[i])], LAMBDA l : l # <<>>))

\* extract_docx_text up to its loop
ExtractDocxCall(doc) ==
    /\ ex_pc = "idle"
    /\ ex_doc' = doc
    /\ IF doc.container # "ok"
         THEN ex_pc' = "done" /\ ex_out' = ExErr(doc.container)
         ELSE ex_pc' = "docx_walk" /\ ex_out' = ExOk("Text", <<>>, "")
    /\ ex_pos' = 0
    /\ ex_in_text_node' = FALSE
    /\ UNCHANGED ex_tried
    /\ UNCHANGED <<catVars, ckVars>>

\* one read_event_into of the loop and the match on it
ExtractDocxEvent ==
    /\ ex_pc = "docx_walk"
    /\ LET events == ReadEvents(DocumentXml(ex_doc.texts))
       IN  IF ex_pos = Len(events)
             THEN /\ ex_pc' = "done"
                  /\ ex_out' = IF ex_doc.malformed
                                 THEN ExErr("XmlParse")
                                 ELSE ExOk("Text", Cleaned(ex_out.text), "")
                  /\ UNCHANGED <<ex_pos, ex_in_text_node>>
             ELSE LET e == events[ex_pos + 1]
                      newline == e.type = "Start" /\ EndsWith(e.name, "p")
                      text == e.type = "Text" /\ ex_in_text_node
                  IN  /\ ex_pos' = ex_pos + 1
                      /\ ex_in_text_node' =
                            IF e.type = "Start" /\ EndsWith(e.name, "t") THEN TRUE
                            ELSE IF e.type = "End" /\ EndsWith(e.name, "t") THEN FALSE
                            ELSE ex_in_text_node
                      /\ ex_out' = [ex_out EXCEPT !.text =
                            IF newline THEN Append(@, "\n")
                            ELSE IF text THEN @ \o Unescape(e.text)
                            ELSE @]
                      /\ ex_pc' = "docx_walk"
    /\ UNCHANGED <<ex_doc, ex_tried>>
    /\ UNCHANGED <<catVars, ckVars>>

\* the caller takes the result
ExtractReturn ==
    /\ ex_pc = "done"
    /\ ex_pc' = "idle"
    /\ ex_doc' = NoDoc
    /\ ex_tried' = <<>>
    /\ ex_pos' = 0
    /\ ex_in_text_node' = FALSE
    /\ ex_out' = NoOut
    /\ UNCHANGED <<catVars, ckVars>>

ExtractNext ==
    \/ \E doc \in PdfDocs : ExtractPdfCall(doc)
    \/ ExtractPdfMem
    \/ ExtractPdfPath
    \/ \E doc \in DocxDocs : ExtractDocxCall(doc)
    \/ ExtractDocxEvent
    \/ ExtractReturn

(***************************************************************************)
(* The catalog: data.                                                      *)
(***************************************************************************)
\* the callers: Tauri runs each async command on its own task, so two
\* commands can be in flight at once
Procs == {"p1", "p2"}

\* conversation ids passed by the callers; None is Option::None
Convs == {"X", "Y"}
None == "None"

\* number of uploads the callers may make
MaxFiles == 1
\* number of commands the callers may start
MaxCalls == 2
\* number of file-system operations that may fail
MaxFaults == 1

\* the byte strings the callers upload: length, whether the bytes are valid
\* UTF-8 (and then the text they decode to), and what pdf_extract makes of them
DataInfo ==
    [TXT_HELLO |-> [len |-> 11, utf8 |-> TRUE,  text |-> "hello world", pdf |-> "err"],
     BAD_UTF8  |-> [len |-> 2,  utf8 |-> FALSE, text |-> "",            pdf |-> "err"],
     EMPTY     |-> [len |-> 0,  utf8 |-> TRUE,  text |-> "",            pdf |-> "err"],
     TXT_WIDE  |-> [len |-> 3000, utf8 |-> TRUE, text |-> "wide",       pdf |-> "err"],
     TXT_LONG  |-> [len |-> 9000, utf8 |-> TRUE, text |-> "long",       pdf |-> "err"],
     TXT_HUGE  |-> [len |-> 12000, utf8 |-> TRUE, text |-> "huge",      pdf |-> "err"],
     TXT_CJK   |-> [len |-> 12000, utf8 |-> TRUE, text |-> "cjk",       pdf |-> "err"],
     PNG       |-> [len |-> 8,  utf8 |-> FALSE, text |-> "",            pdf |-> "err"]]

\* the uploads the callers make: a file name and the bytes
Inputs ==
    {[name |-> "a.txt", data |-> "TXT_HELLO"],
     [name |-> "b.TXT", data |-> "BAD_UTF8"],
     [name |-> "h.txt", data |-> "TXT_HUGE"],
     [name |-> "c.txt", data |-> "TXT_CJK"]}

\* Path::extension of the file names in use ("" when there is none)
Extension(name) ==
    CASE name = "a.txt" -> "txt"
      [] name = "b.TXT" -> "TXT"
      [] name = "s.md"  -> "md"
      [] name = "e.txt" -> "txt"
      [] name = "w.txt" -> "txt"
      [] name = "l.txt" -> "txt"
      [] name = "h.txt" -> "txt"
      [] name = "c.txt" -> "txt"
      [] name = "r.rb"  -> "rb"
      [] name = "d.png" -> "png"
      [] OTHER -> ""

\* str::to_lowercase on the extensions in use
ToLowercase(ext) == IF ext = "TXT" THEN "txt" ELSE ext

\* get_file_type and get_file_type_from_name
GetFileType(name) ==
    IF Extension(name) = "" THEN "unknown" ELSE ToLowercase(Extension(name))

\* length above which store_file_from_path_robust cuts the text
TruncateAt == 10000

\* number of decimal digits of n ({} of format!)
RECURSIVE Digits(_)
Digits(n) == IF n < 10 THEN 1 ELSE 1 + Digits(n \div 10)

\* byte length of "... [Truncated - {n} characters total]"
MarkerLen(n) == 17 + Digits(n) + 18

\* byte length of the texts in use (String::len): "wide" is a text of 1000
\* three-byte characters in 200 words, "long" one of 9000 one-byte characters
\* in 1501 words, "huge" one of 12000 one-byte characters in 2000 words,
\* "huge cut" its first 10000 bytes followed by the marker, and "cjk" a text
\* of 4000 three-byte characters in 800 words
TextLen(text) ==
    CASE text = "" -> 0
      [] text = "hello world" -> 11
      [] text = "wide" -> 3000
      [] text = "long" -> 9000
      [] text = "huge" -> 12000
      [] text = "huge cut" -> TruncateAt + MarkerLen(12000)
      [] text = "cjk" -> 12000
      [] OTHER -> 0

\* number of characters of the texts in use (str::chars().count())
TextChars(text) ==
    CASE text = "" -> 0
      [] text = "hello world" -> 11
      [] text = "wide" -> 1000
      [] text = "long" -> 9000
      [] text = "huge" -> 12000
      [] text = "huge cut" -> TruncateAt + MarkerLen(12000)
      [] text = "cjk" -> 4000
      [] OTHER -> 0

\* byte length of every character of the texts in use (char::len_utf8)
CharWidth(text) == IF text \in {"wide", "cjk"} THEN 3 ELSE 1

\* str::is_char_boundary: offset n of the text is its end or the first byte
\* of a character
IsCharBoundary(text, n) ==
    \/ n = TextLen(text)
    \/ n < TextLen(text) /\ n % CharWidth(text) = 0

\* whether &text[..n] panics: n is past the end or inside a character
SlicePanics(text, n) == ~IsCharBoundary(text, n)

\* number of words of the texts in use (str::split_whitespace().count())
TextWords(text) ==
    CASE text = "" -> 0
      [] text = "hello world" -> 2
      [] text = "wide" -> 200
      [] text = "long" -> 1501
      [] text = "huge" -> 2000
      [] text = "huge cut" -> 1672
      [] text = "cjk" -> 800
      [] OTHER -> 0

\* a summary string, kept as the format and its arguments
Summary(kind, name, file_type, size, text, chars) ==
    [kind |-> kind, name |-> name, file_type |-> file_type, size |-> size,
     text |-> text, chars |-> chars]

\* the summary of a record written before the field existed (serde default)
EmptySummary == Summary("", "", "", 0, "", 0)

\* f.summary.trim().is_empty()
SummaryIsEmpty(s) == s.kind = ""

\* length above which summarize cuts the trimmed content
SnippetAt == 400

\* whether summarize panics: the trimmed content (the texts in use neither
\* start nor end with white space) is longer than the cut and the cut is
\* inside a character
SummarizePanics(content) ==
    TextLen(content) > SnippetAt /\ SlicePanics(content, SnippetAt)

\* summarize: "{name} [{type} | {size} bytes] - {snippet}", the snippet being
\* the first 400 bytes of the content at most, which the content determines;
\* the records list_files backfills hold no content for which it panics
Summarize(name, file_type, size, content) ==
    Summary("brief", name, file_type, size, content, 0)

FileInfo(id, name, file_type, size, upload_date, content, enabled, summary, conv) ==
    [id |-> id, name |-> name, file_type |-> file_type, size |-> size,
     upload_date |-> upload_date, content |-> content,
     is_context_enabled |-> enabled, summary |-> summary,
     conversation_id |-> conv]

NoRec == FileInfo(0, "", "", 0, 0, "", FALSE, EmptySummary, None)

\* records found in index.json at start-up: one written before the summary
\* field existed, one disabled and linked to another conversation
Seed1 == FileInfo(1, "a.txt", "txt", 11, 0, "hello world", TRUE, EmptySummary, "X")
Seed2 == FileInfo(2, "s.md", "md", 11, 0, "hello world", FALSE,
                  Summarize("s.md", "md", 11, "hello world"), "Y")
SeedData == <<"TXT_HELLO", "TXT_HELLO">>
InitCatalogs == {<<Seed1, Seed2>>}

TextTypes == {"txt", "md", "json", "csv", "xml", "yaml", "log"}
CodeTypes == {"py", "js", "ts", "java", "cpp", "c", "go", "rs", "php", "html", "css", "sql"}

\* extract_pdf_text of file_storage.rs: pdf_extract on the bytes, then the
\* line clean-up; an extraction error is returned as Err
ExtractPdfText(data) ==
    IF DataInfo[data].pdf = "ok"
      THEN [ok |-> TRUE, text |-> DataInfo[data].text]
      ELSE [ok |-> FALSE, text |-> ""]

\* fs::read_to_string
ReadToString(data) ==
    IF DataInfo[data].utf8
      THEN [ok |-> TRUE, text |-> DataInfo[data].text]
      ELSE [ok |-> FALSE, text |-> ""]

\* extract_text_content
ExtractTextContent(data, file_type) ==
    IF file_type \in TextTypes \cup CodeTypes THEN ReadToString(data)
    ELSE IF file_type = "pdf" THEN ExtractPdfText(data)
    ELSE [ok |-> TRUE, text |-> ""]

RobustTextTypes == {"txt", "md", "json", "csv", "xml", "yaml", "yml", "log", "rtf"}
RobustCodeTypes ==
    {"py", "js", "ts", "jsx", "tsx", "java", "cpp", "c", "cc", "cxx", "h", "hpp",
     "go", "rs", "php", "rb", "swift", "kt", "scala", "html", "htm", "css", "scss",
     "sass", "less", "sql", "sh", "bash", "zsh", "fish", "ps1", "bat", "cmd"}
ImageTypes == {"png", "jpg", "jpeg", "gif", "bmp", "svg", "webp"}
VideoTypes == {"mp4", "avi", "mov", "wmv", "flv", "webm", "mkv"}
AudioTypes == {"mp3", "wav", "flac", "aac", "ogg"}
ArchiveTypes == {"zip", "rar", "7z", "tar", "gz"}

\* whether the cut of store_file_from_path_robust panics
TruncatePanics(text) ==
    TextLen(text) > TruncateAt /\ SlicePanics(text, TruncateAt)

\* "{first 10000 bytes}... [Truncated - {len} characters total]" of a text
\* longer than that and cut between two characters, the text itself otherwise
Truncate(text) ==
    IF TextLen(text) > TruncateAt
      THEN (CASE text = "huge" -> "huge cut")
      ELSE text

\* step 5 of store_file_from_path_robust: content and summary by file type,
\* an extraction error leaving the content empty, or the panic of the cut
RobustExtract(data, name, file_type, size) ==
    LET fromText(r, what) ==
            IF r.ok /\ TruncatePanics(r.text)
              THEN [panic |-> TRUE, content |-> "", summary |-> EmptySummary]
            ELSE IF r.ok
              THEN [panic |-> FALSE, content |-> Truncate(r.text),
                    summary |-> Summary(what, name, "", size, "extracted",
                                        TextLen(Truncate(r.text)))]
              ELSE [panic |-> FALSE, content |-> "",
                    summary |-> Summary(what, name, "", size, "extraction failed", 0)]
        binary(what) ==
            [panic |-> FALSE, content |-> "",
             summary |-> Summary(what, name, "", size, "not extractable", 0)]
    IN  IF file_type = "pdf" THEN fromText(ExtractPdfText(data), "PDF document")
        ELSE IF file_type \in RobustTextTypes
          THEN fromText(ReadToString(data), "Text document")
        ELSE IF file_type \in RobustCodeTypes
          THEN fromText(ReadToString(data), "Code file")
        ELSE IF file_type \in ImageTypes THEN binary("Image file")
        ELSE IF file_type \in VideoTypes THEN binary("Video file")
        ELSE IF file_type \in AudioTypes THEN binary("Audio file")
        ELSE IF file_type \in ArchiveTypes THEN binary("Archive file")
        ELSE binary("Unknown file type")

(***************************************************************************)
(* The catalog: the index as a list.                                       *)
(***************************************************************************)
SeqIds(files) == {files[i].id : i \in 1..Len(files)}

\* Position with the slip of answering the last index when there is none
PositionOrLast(files, id) ==
    IF \E i \in 1..Len(files) : files[i].id = id
      THEN CHOOSE i \in 1..Len(files) :
               /\ files[i].id = id
               /\ \A j \in 1..(i - 1) : files[j].id # id
      ELSE Len(files)

\* files.iter().position(|f| f.id == id): 0 when there is none
Position(files, id) ==
    IF \E i \in 1..Len(files) : files[i].id = id
      THEN CHOOSE i \in 1..Len(files) :
               /\ files[i].id = id
               /\ \A j \in 1..(i - 1) : files[j].id # id
      ELSE 0

\* RemoveAt with the slip of removing the last record (files.pop())
RemoveLast(files, i) == SubSeq(files, 1, Len(files) - 1)

\* files.remove(index)
RemoveAt(files, i) ==
    [j \in 1..(Len(files) - 1) |-> IF j < i THEN files[j] ELSE files[j + 1]]

\* the records of `files`, in order, whose conversation_id == Some(conv)
\* (same = TRUE) or != Some(conv) (same = FALSE)
RECURSIVE ByConv(_, _, _)
ByConv(files, conv, same) ==
    IF files = <<>> THEN <<>>
    ELSE IF (Head(files).conversation_id = conv) = same
      THEN <<Head(files)>> \o ByConv(Tail(files), conv, same)
    ELSE ByConv(Tail(files), conv, same)

\* the loop of list_files: a record whose summary is empty gets one
Backfill(files) ==
    [i \in 1..Len(files) |->
        IF SummaryIsEmpty(files[i].summary)
          THEN [files[i] EXCEPT !.summary =
                   Summarize(files[i].name, files[i].file_type,
                             files[i].size, files[i].content)]
          ELSE files[i]]

\* PutRecord with the slip of putting a new record first (files.insert(0, ..))
PutRecordFirst(files, rec) ==
    IF Position(files, rec.id) # 0
      THEN [files EXCEPT ![Position(files, rec.id)] = rec]
      ELSE <<rec>> \o files

\* save_file_to_index after its list_files: replace the record of that id or push
PutRecord(files, rec) ==
    IF Position(files, rec.id) # 0
      THEN [files EXCEPT ![Position(files, rec.id)] = rec]
      ELSE Append(files, rec)

\* Toggled with the slip of negating the flag of every record
ToggledAll(files, i) ==
    [j \in 1..Len(files) |->
        [files[j] EXCEPT !.is_context_enabled = ~files[j].is_context_enabled]]

\* Toggled with the slip of writing the record without its conversation
ToggledUnlinked(files, i) ==
    [files EXCEPT ![i].is_context_enabled = ~files[i].is_context_enabled,
                  ![i].conversation_id = None]

\* Toggled with the slip of enabling instead of negating
ToggledOn(files, i) == [files EXCEPT ![i].is_context_enabled = TRUE]

\* toggle_context: files[index].is_context_enabled = !files[index].is_context_enabled
Toggled(files, i) ==
    [files EXCEPT ![i].is_context_enabled = ~files[i].is_context_enabled]

\* Linked with the slip of leaving out the test of is_context_enabled
LinkedAll(files, conv) ==
    [i \in 1..Len(files) |->
        IF files[i].conversation_id # conv
          THEN [files[i] EXCEPT !.conversation_id = conv]
          ELSE files[i]]

\* the loop of link_enabled_files_to_conversation
Linked(files, conv) ==
    [i \in 1..Len(files) |->
        IF files[i].is_context_enabled /\ files[i].conversation_id # conv
          THEN [files[i] EXCEPT !.conversation_id = conv]
          ELSE files[i]]

\* LinkCount with the slip of counting every enabled record
LinkCountEnabled(files, conv) ==
    Cardinality({i \in 1..Len(files) : files[i].is_context_enabled})

\* `updated` of link_enabled_files_to_conversation
LinkCount(files, conv) ==
    Cardinality({i \in 1..Len(files) :
                    files[i].is_context_enabled /\ files[i].conversation_id # conv})

\* the filter and count of count_files_by_conversation
ConvCount(files, conv) ==
    Cardinality({i \in 1..Len(files) : files[i].conversation_id = conv})

\* to_delete of delete_files_by_conversation
ToDelete(files, conv) == ByConv(files, conv, TRUE)

\* Remaining with the slip of a retain whose test is inverted
RemainingInverted(files, conv) == ByConv(files, conv, TRUE)

\* files.retain(..) of delete_files_by_conversation
Remaining(files, conv) == ByConv(files, conv, FALSE)

(***************************************************************************)
(* The catalog: reading the context.                                       *)
(***************************************************************************)
\* content.len() above which get_optimized_context calls the chunker
ChunkThreshold == 2000

\* the code file types of extract_file_content
OnDemandCodeTypes ==
    {"py", "js", "ts", "jsx", "tsx", "java", "cpp", "c", "go", "rs", "php",
     "html", "css", "sql"}

\* the match of extract_file_content on the file type
OnDemandExtract(data, file_type) ==
    IF file_type = "pdf" THEN ExtractPdfText(data)
    ELSE IF file_type \in RobustTextTypes \cup OnDemandCodeTypes
      THEN ReadToString(data)
    ELSE [ok |-> TRUE, text |-> ""]

\* ExtractFileContent with the slip of leaving out the test of
\* file_path.exists(): a binary type answers the empty text, a text type
\* fails in its read
ExtractFileContentNoExists(files, bl, id) ==
    IF Position(files, id) = 0
      THEN [ok |-> FALSE, err |-> "NotFound", text |-> ""]
    ELSE IF id \notin DOMAIN bl
      THEN IF files[Position(files, id)].file_type
                 \in {"pdf"} \cup RobustTextTypes \cup OnDemandCodeTypes
             THEN [ok |-> FALSE, err |-> "Extract", text |-> ""]
             ELSE [ok |-> TRUE, err |-> "", text |-> ""]
    ELSE LET r == OnDemandExtract(bl[id], files[Position(files, id)].file_type)
         IN  IF r.ok THEN [ok |-> TRUE, err |-> "", text |-> r.text]
                     ELSE [ok |-> FALSE, err |-> "Extract", text |-> ""]

\* extract_file_content after its list_files has returned files, bl being the
\* blob store: the record is looked up, then the blob, then the text is read
ExtractFileContent(files, bl, id) ==
    IF Position(files, id) = 0
      THEN [ok |-> FALSE, err |-> "NotFound", text |-> ""]
    ELSE IF id \notin DOMAIN bl
      THEN [ok |-> FALSE, err |-> "NotOnFilesystem", text |-> ""]
    ELSE LET r == OnDemandExtract(bl[id], files[Position(files, id)].file_type)
         IN  IF r.ok THEN [ok |-> TRUE, err |-> "", text |-> r.text]
                     ELSE [ok |-> FALSE, err |-> "Extract", text |-> ""]

\* a block of context, kept as the format and its arguments:
\*   "File"     - "File: {name}\nContent:\n{text}"
\*   "Document" - "Document: {name}\nContent:\n{text}"
\*   "Failed"   - "Document: {name} [Content extraction failed: {err}]"
\* with the id of the record it was made for
Block(kind, id, name, text, err) ==
    [kind |-> kind, id |-> id, name |-> name, text |-> text, err |-> err]

\* ContextBlocks with the slip of a missing filter: a block for every record
ContextBlocksAll(files) ==
    [i \in 1..Len(files) |->
        Block("File", files[i].id, files[i].name, files[i].content, "")]

\* the filter and map of get_context_content
ContextBlocks(files) ==
    LET enabled == SelectSeq(files, LAMBDA f : f.is_context_enabled)
    IN  [i \in 1..Len(enabled) |->
            Block("File", enabled[i].id, enabled[i].name, enabled[i].content, "")]

\* OptimizedBlocks with the slip of passing over a record whose extraction
\* fails
OptimizedBlocksSkipFailed(f, r) ==
    IF ~r.ok \/ TextLen(r.text) = 0 THEN <<>>
    ELSE IF TextLen(r.text) > ChunkThreshold /\ TextWords(r.text) > CHUNK_SIZE
      THEN <<>>
    ELSE <<Block("Document", f.id, f.name, r.text, "")>>

\* OptimizedBlocks with the slip of a missing else: a text over the threshold
\* adds the chunker's block and the whole-document block
OptimizedBlocksNoElse(f, r) ==
    IF ~r.ok THEN <<Block("Failed", f.id, f.name, "", r.err)>>
    ELSE IF TextLen(r.text) = 0 THEN <<>>
    ELSE IF TextLen(r.text) > ChunkThreshold
      THEN IF TextWords(r.text) > CHUNK_SIZE THEN <<>>
           ELSE <<Block("Document", f.id, f.name, r.text, ""),
                  Block("Document", f.id, f.name, r.text, "")>>
    ELSE <<Block("Document", f.id, f.name, r.text, "")>>

\* the blocks one enabled record adds in get_optimized_context, r being the
\* result of its extract_file_content; a text the chunker splits (more than
\* CHUNK_SIZE words) adds none here: create_smart_chunks is ChunkSpec
OptimizedBlocks(f, r) ==
    IF ~r.ok THEN <<Block("Failed", f.id, f.name, "", r.err)>>
    ELSE IF TextLen(r.text) = 0 THEN <<>>
    ELSE IF TextLen(r.text) > ChunkThreshold /\ TextWords(r.text) > CHUNK_SIZE
      THEN <<>>
    ELSE <<Block("Document", f.id, f.name, r.text, "")>>

\* the call of create_smart_chunks for this result enters the loop
EntersChunkLoop(r) ==
    r.ok /\ TextLen(r.text) > ChunkThreshold /\ TextWords(r.text) > CHUNK_SIZE

(***************************************************************************)
(* The catalog: the commands.  A command reads index.json, works on its    *)
(* copy and writes the whole copy back; each access to a file is one step. *)
(***************************************************************************)
\* NewId with the slip of the id generated last: an id that is in use
NewIdStale == Len(SeedData) + nup

\* Uuid::new_v4(): an id no record and no blob has
NewId == Len(SeedData) + nup + 1

\* the ids a caller may name: those in use and one that is not
Ids == 1..NewId

Uploads == {"upload", "uploadFromPath"}
Destroys == {"delete", "deleteByConv", "wipe"}

\* the locals of a command, with the index and the blob ids when it was
\* called and whether it has run with no other command in flight
NoLoc ==
    [op |-> "none", id |-> 0, conv |-> "", rec |-> NoRec, count |-> 0,
     files |-> <<>>, pending |-> <<>>, targets |-> {},
     text |-> "", blocks |-> <<>>, cursor |-> 0,
     pre |-> <<>>, preBlobs |-> {}, solo |-> TRUE]

\* a returned command: its arguments, its result (status, err, rec, count,
\* files, text, blocks), the index and the blob ids when it was called and
\* when it returned, and whether it ran with no other command in flight
NoCall ==
    [op |-> "none", id |-> 0, conv |-> "", status |-> "", err |-> "",
     rec |-> NoRec, count |-> 0, files |-> <<>>, targets |-> {},
     text |-> "", blocks |-> <<>>,
     pre |-> <<>>, preBlobs |-> {}, post |-> <<>>, postBlobs |-> {},
     solo |-> TRUE]

\* what is kept of the command that returned before the last one
Brief(call) ==
    [op |-> call.op, id |-> call.id, conv |-> call.conv, status |-> call.status,
     solo |-> call.solo, flag |-> call.rec.is_context_enabled]

Alone(p) == \A q \in Procs \ {p} : pc[q] = "idle"

\* the locals of all callers once p starts a command: the commands in flight
\* are no longer alone
Mark(p) ==
    [q \in Procs |->
        IF q # p /\ pc[q] # "idle" THEN [loc[q] EXCEPT !.solo = FALSE] ELSE loc[q]]

NewLoc(p, op, id, conv) ==
    [NoLoc EXCEPT !.op = op, !.id = id, !.conv = conv, !.pre = index,
                  !.preBlobs = DOMAIN blobs, !.solo = Alone(p)]

\* p may start a command; the callers being alike, "p2" is the one that
\* calls while a command of "p1" is in flight.  A run has commands in flight
\* together or file-system operations that fail, not both.
CmdGuard(p) ==
    /\ pc[p] = "idle"
    /\ ncalls < MaxCalls
    /\ p = "p1" \/ (pc["p1"] # "idle" /\ nfaults = 0)

\* p starts a command
Started(p) ==
    /\ CmdGuard(p)
    /\ ncalls' = ncalls + 1
    /\ raced' = (raced \/ ~Alone(p))

\* a file-system operation fails (failed) or not
Fault(failed) ==
    IF failed
      THEN ~raced /\ Alone("p1") /\ nfaults < MaxFaults /\ nfaults' = nfaults + 1
      ELSE nfaults' = nfaults

\* n file-system operations fail
Faults(n) ==
    /\ n > 0 => ~raced /\ Alone("p1")
    /\ nfaults + n <= MaxFaults
    /\ nfaults' = nfaults + n

\* the command that returned before the one that returns or starts now
Shift == IF last.op # "none" THEN Brief(last) ELSE prev

\* the command of p goes on at `to` with locals l (fresh: this is its first step)
Goto(p, fresh, l, to) ==
    /\ pc' = [pc EXCEPT ![p] = to]
    /\ loc' = [(IF fresh THEN Mark(p) ELSE loc) EXCEPT ![p] = l]
    /\ last' = IF fresh THEN NoCall ELSE last
    /\ prev' = IF fresh THEN Shift ELSE prev
    /\ live' = live

\* the command of p returns
Finish(p, fresh, l, status, err, postIndex, postBlobs) ==
    /\ last' = [op |-> l.op, id |-> l.id, conv |-> l.conv,
                status |-> status, err |-> err,
                rec |-> IF status = "ok" THEN l.rec ELSE NoRec,
                count |-> IF status = "ok" THEN l.count ELSE 0,
                files |-> IF status = "ok" THEN l.files ELSE <<>>,
                targets |-> l.targets,
                text |-> IF status = "ok" THEN l.text ELSE "",
                blocks |-> IF status = "ok" THEN l.blocks ELSE <<>>,
                pre |-> l.pre, preBlobs |-> l.preBlobs,
                post |-> postIndex, postBlobs |-> postBlobs,
                solo |-> l.solo]
    /\ prev' = Shift
    /\ live' = IF l.op \in Uploads /\ status = "ok" THEN live \cup {l.rec}
               ELSE IF l.op = "delete" THEN {r \in live : r.id # l.id}
               ELSE IF l.op = "deleteByConv" THEN {r \in live : r.id \notin l.targets}
               ELSE IF l.op = "wipe" THEN {}
               ELSE live
    /\ pc' = [pc EXCEPT ![p] = "idle"]
    /\ loc' = [(IF fresh THEN Mark(p) ELSE loc) EXCEPT ![p] = NoLoc]

\* what a command does with the list that list_files returned to it, up to
\* its next file access
AfterList(p, fresh, l, postIndex) ==
    LET i == Position(l.files, l.id)
        ok == Finish(p, fresh, l, "ok", "", postIndex, DOMAIN blobs)
        notFound == Finish(p, fresh, l, "err", "NotFound", postIndex, DOMAIN blobs)
    IN  CASE l.op = "list" -> ok
          [] l.op = "count" ->
               Finish(p, fresh, [l EXCEPT !.count = ConvCount(l.files, l.conv)],
                      "ok", "", postIndex, DOMAIN blobs)
          [] l.op = "context" ->
               Finish(p, fresh, [l EXCEPT !.blocks = ContextBlocks(l.files)],
                      "ok", "", postIndex, DOMAIN blobs)
          [] l.op = "extract" ->
               LET r == ExtractFileContent(l.files, blobs, l.id)
               IN  Finish(p, fresh, [l EXCEPT !.text = r.text],
                          IF r.ok THEN "ok" ELSE "err", r.err, postIndex, DOMAIN blobs)
          [] l.op = "optimized" -> Goto(p, fresh, l, "assemble")
          [] l.op = "toggle" ->
               IF i = 0 THEN notFound
               ELSE Goto(p, fresh, [l EXCEPT !.pending = Toggled(l.files, i),
                                             !.rec = Toggled(l.files, i)[i]], "write")
          [] l.op = "delete" ->
               IF i = 0 THEN notFound
               ELSE Goto(p, fresh, [l EXCEPT !.pending = RemoveAt(l.files, i),
                                             !.targets = {l.id}], "rmblob")
          [] l.op = "deleteByConv" ->
               Goto(p, fresh,
                    [l EXCEPT !.pending = Remaining(l.files, l.conv),
                              !.targets = SeqIds(ToDelete(l.files, l.conv)),
                              !.count = Len(ToDelete(l.files, l.conv))],
                    "rmblob")
          [] l.op = "link" ->
               IF LinkCount(l.files, l.conv) = 0 THEN ok
               ELSE Goto(p, fresh, [l EXCEPT !.pending = Linked(l.files, l.conv),
                                             !.count = LinkCount(l.files, l.conv)],
                         "write")
          [] l.op = "upload" ->
               Goto(p, fresh, [l EXCEPT !.pending = PutRecord(l.files, l.rec)],
                    "write")
          [] l.op = "uploadFromPath" ->
               Goto(p, fresh, [l EXCEPT !.pending = Append(l.files, l.rec)], "write")

\* ListFiles with the slip of returning the backfilled list unsaved
ListFilesNoSave(p, fresh, l) ==
    AfterList(p, fresh, [l EXCEPT !.files = Backfill(index)], index)

\* list_files up to its save_index: read and parse index.json, backfill
ListFiles(p, fresh, l) ==
    LET files == Backfill(index)
    IN  IF files # index
          THEN Goto(p, fresh, [l EXCEPT !.files = files], "backfill")
          ELSE AfterList(p, fresh, [l EXCEPT !.files = files], index)

\* a command that starts with list_files
Begin(p, op, id, conv) ==
    /\ Started(p)
    /\ ListFiles(p, TRUE, NewLoc(p, op, id, conv))
    /\ UNCHANGED <<index, blobs, nup, nfaults, wiped>>
    /\ UNCHANGED ckVars
    /\ UNCHANGED exVars

\* list_uploaded_files -> list_files
ListFilesCmd(p) == Begin(p, "list", 0, "")

\* toggle_file_context -> toggle_context
ToggleContext(p, id) == Begin(p, "toggle", id, "")

\* delete_uploaded_file -> delete_file
DeleteFile(p, id) == Begin(p, "delete", id, "")

\* delete_files_by_conversation
DeleteFilesByConversation(p, conv) == Begin(p, "deleteByConv", 0, conv)

\* link_enabled_files_to_conversation
LinkEnabledFilesToConversation(p, conv) == Begin(p, "link", 0, conv)

WithBlob(id, data) ==
    [i \in DOMAIN blobs \cup {id} |-> IF i = id THEN data ELSE blobs[i]]

\* upload_file up to save_file_to_index: the blob is written (wok: fs::write
\* succeeds), the content extracted, the record built; a panic of summarize
\* unwinds the command, which returns nothing
UploadFile(p, inp, wok) ==
    /\ Started(p)
    /\ nup < MaxFiles
    /\ nup' = nup + 1
    /\ Fault(~wok)
    /\ LET id == NewId
           file_type == GetFileType(inp.name)
           size == DataInfo[inp.data].len
           x == ExtractTextContent(inp.data, file_type)
           l == NewLoc(p, "upload", id, "")
           rec == FileInfo(id, inp.name, file_type, size, id, x.text, TRUE,
                           Summarize(inp.name, file_type, size, x.text), None)
       IN  IF ~wok
             THEN /\ UNCHANGED blobs
                  /\ Finish(p, TRUE, l, "err", "Io", index, DOMAIN blobs)
             ELSE /\ blobs' = WithBlob(id, inp.data)
                  /\ IF ~x.ok
                       THEN Finish(p, TRUE, l, "err", "Extract", index,
                                   DOMAIN blobs \cup {id})
                     ELSE IF SummarizePanics(x.text)
                       THEN Finish(p, TRUE, l, "panic", "", index,
                                   DOMAIN blobs \cup {id})
                       ELSE Goto(p, TRUE, [l EXCEPT !.rec = rec], "read")
    /\ UNCHANGED <<index, wiped>>
    /\ UNCHANGED ckVars
    /\ UNCHANGED exVars

\* upload_file_from_path -> store_file_from_path_robust up to its list_files:
\* the blob is copied (cok: fs::copy succeeds), the content extracted with
\* its fallback, the record built; a panic of the cut unwinds the command,
\* which returns nothing
UploadFromPath(p, inp, cok) ==
    /\ Started(p)
    /\ nup < MaxFiles
    /\ nup' = nup + 1
    /\ Fault(~cok)
    /\ LET id == NewId
           file_type == GetFileType(inp.name)
           size == DataInfo[inp.data].len
           x == RobustExtract(inp.data, inp.name, file_type, size)
           l == NewLoc(p, "uploadFromPath", id, "")
           rec == FileInfo(id, inp.name, file_type, size, id, x.content,
                           TRUE, x.summary, None)
       IN  IF ~cok
             THEN /\ UNCHANGED blobs
                  /\ Finish(p, TRUE, l, "err", "Io", index, DOMAIN blobs)
             ELSE /\ blobs' = WithBlob(id, inp.data)
                  /\ IF x.panic
                       THEN Finish(p, TRUE, l, "panic", "", index,
                                   DOMAIN blobs \cup {id})
                       ELSE Goto(p, TRUE, [l EXCEPT !.rec = rec], "read")
    /\ UNCHANGED <<index, wiped>>
    /\ UNCHANGED ckVars
    /\ UNCHANGED exVars

\* what store_file_from_path_robust goes on with when its list_files
\* returns an error: list_files().unwrap_or_else(|_| vec![])
ListOrEmpty(p) == AfterList(p, FALSE, [loc[p] EXCEPT !.files = <<>>], index)

\* the list_files of save_file_to_index and of store_file_from_path_robust
\* (rok: index.json is read and parsed); save_file_to_index returns its
\* error, store_file_from_path_robust goes on with an empty list
UploadRead(p, rok) ==
    /\ pc[p] = "read"
    /\ Fault(~rok)
    /\ IF rok THEN ListFiles(p, FALSE, loc[p])
       ELSE IF loc[p].op = "uploadFromPath" THEN ListOrEmpty(p)
       ELSE Finish(p, FALSE, loc[p], "err", "Io", index, DOMAIN blobs)
    /\ UNCHANGED <<index, blobs, nup, raced, ncalls, wiped>>
    /\ UNCHANGED ckVars
    /\ UNCHANGED exVars

\* the save_index of list_files: the backfilled list is written (ok:
\* fs::write succeeds), then the command goes on with the list
SaveBackfill(p, ok) ==
    /\ pc[p] = "backfill"
    /\ Fault(~ok)
    /\ IF ok
         THEN /\ index' = loc[p].files
              /\ AfterList(p, FALSE, loc[p], loc[p].files)
         ELSE /\ UNCHANGED index
              /\ IF loc[p].op = "uploadFromPath" THEN ListOrEmpty(p)
                 ELSE Finish(p, FALSE, loc[p], "err", "Io", index, DOMAIN blobs)
    /\ UNCHANGED <<blobs, nup, raced, ncalls, wiped>>
    /\ UNCHANGED ckVars
    /\ UNCHANGED exVars

\* count_files_by_conversation
CountFilesByConversation(p, conv) == Begin(p, "count", 0, conv)

\* get_file_context -> get_context_content
GetFileContext(p) == Begin(p, "context", 0, "")

\* extract_file_content: the record is looked up in the list that list_files
\* returned and the blob is read in the same step; a blob is removed before
\* its record and written before it, so reading it later shows nothing else
ExtractFileContentCmd(p, id) == Begin(p, "extract", id, "")

\* get_optimized_file_context -> get_optimized_context up to its loop
GetOptimizedFileContext(p) == Begin(p, "optimized", 0, "")

\* one iteration of the loop of get_optimized_context over the list (a
\* record that is not enabled is passed over), or its return after the last.
\* extract_file_content reads the index again with list_files; a text of more
\* than CHUNK_SIZE words takes the call into the loop of create_smart_chunks
OptimizedStep(p) ==
    /\ pc[p] = "assemble"
    /\ LET l == loc[p]
           i == l.cursor + 1
       IN  IF i > Len(l.files)
             THEN /\ UNCHANGED index
                  /\ Finish(p, FALSE, l, "ok", "", index, DOMAIN blobs)
           ELSE IF ~l.files[i].is_context_enabled
             THEN /\ UNCHANGED index
                  /\ Goto(p, FALSE, [l EXCEPT !.cursor = i], "assemble")
           ELSE LET r == ExtractFileContent(Backfill(index), blobs, l.files[i].id)
                IN  /\ index' = Backfill(index)
                    /\ IF EntersChunkLoop(r)
                         THEN Goto(p, FALSE, [l EXCEPT !.cursor = i], "chunking")
                         ELSE Goto(p, FALSE,
                                   [l EXCEPT !.cursor = i,
                                             !.blocks = @ \o OptimizedBlocks(l.files[i], r)],
                                   "assemble")
    /\ UNCHANGED <<blobs, nup, raced, ncalls, nfaults, wiped>>
    /\ UNCHANGED ckVars
    /\ UNCHANGED exVars

\* delete_file between list_files and save_index: the blob is removed when it
\* exists (ok: fs::remove_file succeeds)
RemoveBlob(p, ok) ==
    /\ pc[p] = "rmblob"
    /\ loc[p].op = "delete"
    /\ Fault(~ok)
    /\ IF loc[p].id \in DOMAIN blobs
         THEN IF ok
                THEN /\ blobs' = [i \in DOMAIN blobs \ {loc[p].id} |-> blobs[i]]
                     /\ Goto(p, FALSE, loc[p], "write")
                ELSE /\ UNCHANGED blobs
                     /\ Finish(p, FALSE, loc[p], "err", "Io", index, DOMAIN blobs)
         ELSE /\ ok
              /\ UNCHANGED blobs
              /\ Goto(p, FALSE, loc[p], "write")
    /\ UNCHANGED <<index, nup, raced, ncalls, wiped>>
    /\ UNCHANGED ckVars
    /\ UNCHANGED exVars

\* delete_files_by_conversation between list_files and save_index: the blobs
\* of to_delete are removed, a failure being ignored (kept: the blobs whose
\* fs::remove_file fails)
RemoveConvBlobs(p, kept) ==
    /\ pc[p] = "rmblob"
    /\ loc[p].op = "deleteByConv"
    /\ kept \subseteq (loc[p].targets \cap DOMAIN blobs)
    /\ Faults(Cardinality(kept))
    /\ blobs' = [i \in DOMAIN blobs \ (loc[p].targets \ kept) |-> blobs[i]]
    /\ Goto(p, FALSE, loc[p], "write")
    /\ UNCHANGED <<index, nup, raced, ncalls, wiped>>
    /\ UNCHANGED ckVars
    /\ UNCHANGED exVars

\* WipeAll with the slip of leaving the loop at a removal that fails: the
\* files after it stay
WipeAllStopsAtFailure(p, kept, abort) ==
    /\ Started(p)
    /\ wiped' = TRUE
    /\ kept \subseteq DOMAIN blobs
    /\ IF abort THEN kept = DOMAIN blobs /\ Fault(TRUE)
                ELSE Faults(Cardinality(kept))
    /\ blobs' = IF kept = {} THEN [i \in {} |-> blobs[i]] ELSE blobs
    /\ LET l == [NewLoc(p, "wipe", 0, "") EXCEPT
                    !.targets = SeqIds(index) \cup DOMAIN blobs]
       IN  IF abort
             THEN Finish(p, TRUE, l, "err", "Io", index, kept)
             ELSE Goto(p, TRUE, l, "write")
    /\ UNCHANGED <<index, nup>>
    /\ UNCHANGED ckVars
    /\ UNCHANGED exVars

\* wipe_uploaded_files -> wipe_all up to its save_index: every file of the
\* directory but index.json is removed (kept: the blobs whose removal fails;
\* abort: read_dir fails and wipe_all returns)
WipeAll(p, kept, abort) ==
    /\ Started(p)
    /\ wiped' = TRUE
    /\ kept \subseteq DOMAIN blobs
    /\ IF abort THEN kept = DOMAIN blobs /\ Fault(TRUE)
                ELSE Faults(Cardinality(kept))
    /\ blobs' = [i \in kept |-> blobs[i]]
    /\ LET l == [NewLoc(p, "wipe", 0, "") EXCEPT
                    !.targets = SeqIds(index) \cup DOMAIN blobs]
       IN  IF abort
             THEN Finish(p, TRUE, l, "err", "Io", index, kept)
             ELSE Goto(p, TRUE, l, "write")
    /\ UNCHANGED <<index, nup>>
    /\ UNCHANGED ckVars
    /\ UNCHANGED exVars

\* save_index at the end of a command: the whole list is written (ok:
\* fs::write succeeds) and the command returns
SaveIndex(p, ok) ==
    /\ pc[p] = "write"
    /\ Fault(~ok)
    /\ IF ok
         THEN /\ index' = loc[p].pending
              /\ Finish(p, FALSE, [loc[p] EXCEPT !.files = loc[p].pending],
                        "ok", "", loc[p].pending, DOMAIN blobs)
         ELSE /\ UNCHANGED index
              /\ Finish(p, FALSE, loc[p], "err", "Io", index, DOMAIN blobs)
    /\ UNCHANGED <<blobs, nup, raced, ncalls, wiped>>
    /\ UNCHANGED ckVars
    /\ UNCHANGED exVars

CatInit ==
    /\ index \in InitCatalogs
    /\ blobs = [i \in SeqIds(index) |-> SeedData[i]]
    /\ nup = 0
    /\ pc = [p \in Procs |-> "idle"]
    /\ loc = [p \in Procs |-> NoLoc]
    /\ last = NoCall
    /\ prev = Brief(NoCall)
    /\ live = {}
    /\ raced = FALSE
    /\ ncalls = 0
    /\ nfaults = 0
    /\ wiped = FALSE

Init == CatInit /\ ChunkInit /\ ExInit

(***************************************************************************)
(* Reading the context: the catalogs it is read from.                      *)
(***************************************************************************)
\* number of records of a catalog the context is read from
MaxRecs == 2

\* the files such a catalog holds: name, bytes, whether the record is
\* enabled, and whether it was written before the summary field existed
Templates ==
    {[name |-> "a.txt", data |-> "TXT_HELLO", enabled |-> TRUE,  legacy |-> TRUE],
     [name |-> "s.md",  data |-> "TXT_HELLO", enabled |-> FALSE, legacy |-> FALSE],
     [name |-> "e.txt", data |-> "EMPTY",     enabled |-> TRUE,  legacy |-> FALSE],
     [name |-> "w.txt", data |-> "TXT_WIDE",  enabled |-> TRUE,  legacy |-> FALSE],
     [name |-> "b.TXT", data |-> "BAD_UTF8",  enabled |-> TRUE,  legacy |-> FALSE],
     [name |-> "l.txt", data |-> "TXT_LONG",  enabled |-> TRUE,  legacy |-> FALSE],
     [name |-> "d.png", data |-> "PNG",       enabled |-> TRUE,  legacy |-> FALSE],
     [name |-> "r.rb",  data |-> "TXT_HELLO", enabled |-> TRUE,  legacy |-> FALSE]}

\* the record store_file_from_path_robust has made of such a file under id
\* (then disabled by toggle_context, or its summary never written)
TemplateRecord(t, id) ==
    LET size == DataInfo[t.data].len
        e == RobustExtract(t.data, t.name, GetFileType(t.name), size)
    IN  FileInfo(id, t.name, GetFileType(t.name), size, id, e.content, t.enabled,
                 IF t.legacy THEN EmptySummary ELSE e.summary, None)

\* the ids a caller may name there
CtxIds == 1..(MaxRecs + 1)

\* a catalog of up to MaxRecs such records, each with its blob or, after a
\* destroy operation that failed half-way, without it
CtxInit ==
    /\ \E n \in 0..MaxRecs : \E c \in [1..n -> Templates] :
          /\ index = [i \in 1..n |-> TemplateRecord(c[i], i)]
          /\ \E present \in SUBSET (1..n) : blobs = [i \in present |-> c[i].data]
    /\ nup = 0
    /\ pc = [p \in Procs |-> "idle"]
    /\ loc = [p \in Procs |-> NoLoc]
    /\ last = NoCall
    /\ prev = Brief(NoCall)
    /\ live = {}
    /\ raced = FALSE
    /\ ncalls = 0
    /\ nfaults = 0
    /\ wiped = FALSE
    /\ ChunkInit
    /\ ExInit

\* one command that reads the catalog, from any of these catalogs
CtxNext ==
    \/ ncalls = 0 /\ \E p \in Procs : ListFilesCmd(p)
    \/ ncalls = 0 /\ \E p \in Procs, conv \in Convs : CountFilesByConversation(p, conv)
    \/ ncalls = 0 /\ \E p \in Procs : GetFileContext(p)
    \/ ncalls = 0 /\ \E p \in Procs, id \in CtxIds : ExtractFileContentCmd(p, id)
    \/ ncalls = 0 /\ \E p \in Procs : GetOptimizedFileContext(p)
    \/ \E p \in Procs : OptimizedStep(p)
    \/ \E p \in Procs, ok \in BOOLEAN : SaveBackfill(p, ok)

Next ==
    \/ \E p \in Procs : ListFilesCmd(p)
    \/ \E p \in Procs, id \in Ids : ToggleContext(p, id)
    \/ \E p \in Procs, id \in Ids : DeleteFile(p, id)
    \/ \E p \in Procs, conv \in Convs : DeleteFilesByConversation(p, conv)
    \/ \E p \in Procs, conv \in Convs : LinkEnabledFilesToConversation(p, conv)
    \/ \E p \in Procs, inp \in Inputs, wok \in BOOLEAN : UploadFile(p, inp, wok)
    \/ \E p \in Procs, inp \in Inputs, cok \in BOOLEAN : UploadFromPath(p, inp, cok)
    \/ \E p \in Procs, rok \in BOOLEAN : UploadRead(p, rok)
    \/ \E p \in Procs, ok \in BOOLEAN : SaveBackfill(p, ok)
    \/ \E p \in Procs, ok \in BOOLEAN : RemoveBlob(p, ok)
    \/ \E p \in Procs, kept \in SUBSET Ids : RemoveConvBlobs(p, kept)
    \/ \E p \in Procs, kept \in SUBSET Ids, abort \in BOOLEAN : WipeAll(p, kept, abort)
    \/ \E p \in Procs, ok \in BOOLEAN : SaveIndex(p, ok)

Spec == Init /\ [][Next]_vars

ChunkSpec == Init /\ [][ChunkNext]_vars

CtxSpec == CtxInit /\ [][CtxNext]_vars

ExtractSpec == Init /\ [][ExtractNext]_vars

(***************************************************************************)
(* Properties of the chunker (ChunkSpec).                                  *)
(***************************************************************************)
\* a chunk without its first k words
DropWords(w, k) == SubSeq(w, k + 1, Len(w))

\* the first chunk whole, then of each later chunk the words after its
\* first OVERLAP_SIZE, in chunk order
RECURSIVE Reconstruct(_)
Reconstruct(chunks) ==
    IF chunks = <<>> THEN <<>>
    ELSE IF Len(chunks) = 1 THEN ChunkWords(chunks[1])
    ELSE Reconstruct(SubSeq(chunks, 1, Len(chunks) - 1))
            \o DropWords(ChunkWords(chunks[Len(chunks)]), OVERLAP_SIZE)

\* C1: the chunker terminates: the process never runs out of memory inside
\* the loop, and once a window has reached the last word the loop has stopped
C1_ChunkerStops ==
    /\ ck_pc # "oom"
    /\ (ck_pc = "loop" /\ ck_chunks # <<>>) => ck_end < ck_n

\* C10: for a content of more than CHUNK_SIZE words the call ends by
\* returning chunks, and the first chunk whole followed by the later chunks
\* without their overlap is the original word sequence
C10_ChunkCoverage ==
    (ck_n > CHUNK_SIZE /\ ck_pc \in {"done", "oom"})
        => (ck_pc = "done" /\ Reconstruct(ck_chunks) = Words(ck_n))

\* what the loop does keep: once a window has reached the last word, the
\* chunks pushed so far cover the words exactly, whatever is pushed after
CoverageInsideLoop ==
    (ck_n > CHUNK_SIZE /\ ck_chunks # <<>> /\ ck_end = ck_n)
        => Reconstruct(ck_chunks) = Words(ck_n)

\* a content of CHUNK_SIZE words or fewer is returned as one chunk
SmallContentReturns ==
    (ck_pc = "done") => (ck_n <= CHUNK_SIZE /\ Len(ck_chunks) = 1)

\* the number of words of a chunk
ChunkLen(c) == c.end - c.start

\* C11: for a content of more than CHUNK_SIZE words, every chunk pushed but
\* the last has exactly CHUNK_SIZE words, and the last OVERLAP_SIZE words of
\* each chunk are the first OVERLAP_SIZE words of the next
C11_ChunkShape ==
    ck_n > CHUNK_SIZE
        => \A k \in 1..(Len(ck_chunks) - 1) :
              /\ ChunkLen(ck_chunks[k]) = CHUNK_SIZE
              /\ ChunkLen(ck_chunks[k + 1]) >= OVERLAP_SIZE
              /\ SubSeq(ChunkWords(ck_chunks[k]), CHUNK_SIZE - OVERLAP_SIZE + 1, CHUNK_SIZE)
                    = SubSeq(ChunkWords(ck_chunks[k + 1]), 1, OVERLAP_SIZE)

\* C12: for a content of more than CHUNK_SIZE words, every chunk pushed, at
\* every iteration, is a slice of the words with at least 1 and at most
\* CHUNK_SIZE of them
C12_ChunksBounded ==
    ck_n > CHUNK_SIZE
        => \A k \in 1..Len(ck_chunks) :
              /\ 0 <= ck_chunks[k].start
              /\ ck_chunks[k].end <= ck_n
              /\ ChunkLen(ck_chunks[k]) >= 1
              /\ ChunkLen(ck_chunks[k]) <= CHUNK_SIZE

\* C12 (witness): the loop has pushed a full window and a shorter one after it
C12_PushedFullAndShort ==
    /\ ck_n > CHUNK_SIZE
    /\ Len(ck_chunks) >= 2
    /\ ChunkLen(ck_chunks[1]) = CHUNK_SIZE
    /\ ChunkLen(ck_chunks[Len(ck_chunks)]) < CHUNK_SIZE

\* C26: for a content of more than CHUNK_SIZE words, the part number of
\* every chunk is between 1 and the total of its label, that total is the
\* word count divided by CHUNK_SIZE - OVERLAP_SIZE, rounded up, and the call
\* ends by returning that many chunks
C26_PartLabelsConsistent ==
    ck_n > CHUNK_SIZE
        => /\ \A k \in 1..Len(ck_chunks) :
                 /\ ck_chunks[k].total * (CHUNK_SIZE - OVERLAP_SIZE) >= ck_n
                 /\ (ck_chunks[k].total - 1) * (CHUNK_SIZE - OVERLAP_SIZE) < ck_n
                 /\ 1 <= ck_chunks[k].part
                 /\ ck_chunks[k].part <= ck_chunks[k].total
           /\ ck_pc \in {"done", "oom"}
                 => (ck_pc = "done" /\ Len(ck_chunks) = ck_chunks[1].total)

(***************************************************************************)
(* Properties of the catalog (Spec).  `last` is the command that returned  *)
(* last and `prev` the one that returned before it; a command is solo when *)
(* no other command was in flight between its call and its return.         *)
(***************************************************************************)
Quiescent == \A p \in Procs : pc[p] = "idle"

\* the record of that id in files
RecordOf(files, id) == files[CHOOSE i \in 1..Len(files) : files[i].id = id]

\* post is pre but for summaries written where pre had an empty one
BackfilledOnly(pre, post) ==
    /\ Len(post) = Len(pre)
    /\ \A i \in 1..Len(pre) :
          /\ [post[i] EXCEPT !.summary = pre[i].summary] = pre[i]
          /\ post[i].summary # pre[i].summary => SummaryIsEmpty(pre[i].summary)
          /\ ~SummaryIsEmpty(post[i].summary)

\* an upload and a delete of different ids have both returned success, in
\* either order, and the index lacks the effect of the one that returned first
LostUpload ==
    /\ prev.op \in Uploads /\ prev.status = "ok"
    /\ last.op = "delete" /\ last.status = "ok"
    /\ prev.id # last.id
    /\ prev.id \notin SeqIds(index)

LostDelete ==
    /\ prev.op = "delete" /\ prev.status = "ok"
    /\ last.op \in Uploads /\ last.status = "ok"
    /\ prev.id # last.id
    /\ prev.id \in SeqIds(index)

\* C2 (witness): both calls have returned success and the uploaded record is
\* missing from the final index
C2_UploadLost == Quiescent /\ LostUpload /\ last.post = index

\* C2: the effect of the first writer is lost only to a second writer whose
\* read-modify-write cycle overlapped another command; the loss is reachable
\* (C2_UploadLost) and is the work of the interleaving
C2_LostUpdateNeedsOverlap == (LostUpload \/ LostDelete) => ~last.solo

\* C3: an upload whose blob is written and whose index writes succeed returns
\* a record and has it in the index, whatever the extractor does
C3_ExtractionNeverAborts ==
    (last.op \in Uploads /\ last.solo /\ last.id \in last.postBlobs /\ last.err # "Io")
        => /\ last.status = "ok"
           /\ last.rec.id = last.id
           /\ last.id \in SeqIds(last.post)

\* delete or toggle_context called with an id the index does not hold
AbsentId == last.op \in {"delete", "toggle"} /\ last.solo /\ last.id \notin SeqIds(last.pre)

\* C4 (as stated): delete and toggle of an absent id fail with not-found and
\* leave the persisted index exactly as it was
C4_NotFoundLeavesIndex ==
    (AbsentId /\ last.err # "Io")
        => (last.status = "err" /\ last.err = "NotFound" /\ last.post = last.pre)

\* C4 (amended): delete and toggle of an absent id fail, with not-found unless
\* the index write of list_files failed, and the persisted index is as it was
\* but for the summaries list_files has written into records that had none
C4_NotFoundBackfillsOnly ==
    AbsentId
        => /\ last.status = "err"
           /\ last.err \in {"NotFound", "Io"}
           /\ last.postBlobs = last.preBlobs
           /\ last.err = "NotFound" => BackfilledOnly(last.pre, last.post)
           /\ last.err = "Io" => last.post = last.pre

\* C4 (witness): a not-found delete or toggle has rewritten a legacy record
C4_NotFoundHasBackfilled ==
    AbsentId /\ last.err = "NotFound" /\ last.post # last.pre

\* files holds a record with the id, name, file_type, size and content of r
Holds(files, r) ==
    \E i \in 1..Len(files) :
        /\ files[i].id = r.id
        /\ files[i].name = r.name
        /\ files[i].file_type = r.file_type
        /\ files[i].size = r.size
        /\ files[i].content = r.content

SoloToggle(call) == call.op = "toggle" /\ call.status = "ok" /\ call.solo

\* two consecutive successful toggle_context calls of one id
ToggledTwice == SoloToggle(prev) /\ SoloToggle(last) /\ prev.id = last.id

\* C6: each successful toggle returns the record as it has persisted it, with
\* the flag negated; after two consecutive ones of the same id the flag is
\* the negation of what the first returned, which is its original value
C6_ToggleInvolution ==
    /\ (last.op = "toggle" /\ last.status = "ok")
          => RecordOf(last.post, last.id) = last.rec
    /\ SoloToggle(last)
          => last.rec.is_context_enabled
                = ~RecordOf(last.pre, last.id).is_context_enabled
    /\ ToggledTwice
          => /\ RecordOf(last.pre, last.id).is_context_enabled = prev.flag
             /\ RecordOf(last.post, last.id).is_context_enabled = ~prev.flag

\* C6 (witness): the second of two consecutive toggles has returned
C6_ToggledTwice == ToggledTwice /\ Quiescent /\ index = last.post

\* the records of files that conversation conv does not own
Others(files, conv) == SelectSeq(files, LAMBDA f : f.conversation_id # conv)

\* a delete_files_by_conversation that succeeded and ran alone
SoloDeleteByConv == last.op = "deleteByConv" /\ last.status = "ok" /\ last.solo

\* the number of records of conversation last.conv when the call was made
OwnedBefore ==
    Cardinality({i \in 1..Len(last.pre) : last.pre[i].conversation_id = last.conv})

\* C7 (as stated): the index after deleteByConversation(c) is the records of
\* other conversations, unmodified and in order, and the count returned is
\* the number of records removed
C7_DeleteByConversationExact ==
    SoloDeleteByConv
        => /\ last.post = Others(last.pre, last.conv)
           /\ last.count = OwnedBefore

\* C7 (amended): the same, but for the summaries list_files has written into
\* the remaining records that had none
C7_DeleteByConversationBackfills ==
    SoloDeleteByConv
        => /\ BackfilledOnly(Others(last.pre, last.conv), last.post)
           /\ last.count = OwnedBefore
           /\ last.count = Len(last.pre) - Len(last.post)

\* C7 (witness): a deleteByConversation has removed a record and left one
C7_RemovedSomeLeftSome ==
    SoloDeleteByConv /\ last.count >= 1 /\ Len(last.post) >= 1

\* C8: between commands, every record of the index has a blob under its id,
\* unless wipe_all has been called
C8_IndexHasBlobs ==
    (Quiescent /\ ~wiped /\ ~raced) => SeqIds(index) \subseteq DOMAIN blobs

\* C9: when a destroy operation returns, no record it targeted has lost its
\* blob and kept its index entry, or lost its index entry and kept its blob
C9_DestroyedTogether ==
    (last.op \in Destroys /\ last.solo)
        => \A id \in last.targets :
              /\ ~(id \in last.preBlobs /\ id \notin last.postBlobs
                      /\ id \in SeqIds(last.post))
              /\ ~(id \in SeqIds(last.pre) /\ id \notin SeqIds(last.post)
                      /\ id \in last.postBlobs)

\* a list() that has returned a list
ListReturned == last.op = "list" /\ last.status = "ok"

\* no record of files has an empty summary
AllSummarized(files) == \A i \in 1..Len(files) : ~SummaryIsEmpty(files[i].summary)

\* C14: when list() returns a list, no record of the list and none of the
\* persisted index has an empty summary; run alone, it returns the index it
\* leaves, which is the index it found with a summary written into the
\* records that had none
C14_SelfHealingRead ==
    ListReturned
        => /\ AllSummarized(last.files)
           /\ AllSummarized(last.post)
           /\ AllSummarized(index)
           /\ last.solo => /\ last.files = last.post
                           /\ BackfilledOnly(last.pre, last.post)

\* C14 (witness): a list() has found a record without summary and returned
C14_HealedLegacyRecord ==
    /\ ListReturned
    /\ ~AllSummarized(last.pre)
    /\ last.post # last.pre

\* a link_enabled_files_to_conversation that succeeded and ran alone
SoloLink(call) == call.op = "link" /\ call.status = "ok" /\ call.solo

\* two consecutive successful links to one conversation
LinkedTwice == SoloLink(prev) /\ SoloLink(last) /\ prev.conv = last.conv

\* C15: the count returned by linkEnabledToConversation(c) is the number of
\* enabled records whose conversation was not c, which is the number of
\* records whose conversation_id the call has changed; a second call with the
\* same c right after returns 0 and leaves the index as it is
C15_LinkCountsChanges ==
    /\ SoloLink(last)
          => /\ Len(last.post) = Len(last.pre)
             /\ last.count
                   = Cardinality({i \in 1..Len(last.pre) :
                        /\ last.pre[i].is_context_enabled
                        /\ last.pre[i].conversation_id # last.conv})
             /\ last.count
                   = Cardinality({i \in 1..Len(last.pre) :
                        last.post[i].conversation_id # last.pre[i].conversation_id})
    /\ LinkedTwice => (last.count = 0 /\ last.post = last.pre)

\* C15 (witness): the second of two consecutive links to one conversation
\* has returned, an enabled record being linked to it
C15_LinkedTwice ==
    /\ LinkedTwice
    /\ Quiescent
    /\ \E i \in 1..Len(index) :
          index[i].is_context_enabled /\ index[i].conversation_id = last.conv

\* C16: after linkEnabledToConversation(c) every enabled record has
\* conversation c, every other record is as it was but for a backfilled
\* summary, and count_files_by_conversation(c) on the index it leaves is the
\* number of records that were enabled or already of conversation c
C16_LinkPostcondition ==
    SoloLink(last)
        => /\ Len(last.post) = Len(last.pre)
           /\ \A i \in 1..Len(last.pre) :
                 /\ last.post[i].id = last.pre[i].id
                 /\ last.post[i].is_context_enabled = last.pre[i].is_context_enabled
                 /\ last.post[i].is_context_enabled
                       => last.post[i].conversation_id = last.conv
                 /\ ~last.post[i].is_context_enabled
                       => last.post[i].conversation_id = last.pre[i].conversation_id
           /\ ConvCount(last.post, last.conv)
                 = Cardinality({i \in 1..Len(last.pre) :
                      \/ last.pre[i].is_context_enabled
                      \/ last.pre[i].conversation_id = last.conv})

\* C16 (witness): a link has moved a record from another conversation and
\* left a record that is not enabled in its own
C16_MovedOneLeftOne ==
    /\ SoloLink(last)
    /\ \E i \in 1..Len(last.pre) :
          /\ last.pre[i].is_context_enabled
          /\ last.pre[i].conversation_id \in Convs \ {last.conv}
    /\ \E j \in 1..Len(last.pre) :
          /\ ~last.pre[j].is_context_enabled
          /\ last.post[j].conversation_id # last.conv

\* a wipe_all has just returned and no other command was in flight with it
SoloWipe == last.op = "wipe" /\ last.solo

\* C20: of a wipe_all that ran alone: when it returns Ok the index is the
\* empty list and no more blobs are left than removals have failed, so that
\* a failing removal keeps no other blob; when it returns an error the index
\* is as it was, never lost; and a list_files that follows a wipe_all that
\* returned Ok returns the empty list
C20_WipeAllBestEffort ==
    /\ (SoloWipe /\ last.status = "ok")
          => /\ last.post = <<>>
             /\ index = <<>>
             /\ last.postBlobs \subseteq last.preBlobs
             /\ Cardinality(last.postBlobs) <= nfaults
    /\ (SoloWipe /\ last.status # "ok")
          => /\ last.post = last.pre
             /\ index = last.pre
    /\ (prev.op = "wipe" /\ prev.status = "ok" /\ prev.solo /\ ListReturned /\ last.solo)
          => last.files = <<>>

\* C20 (witness): a list_files returns the empty list after a wipe_all that
\* returned Ok although the removal of one blob had failed: that blob is
\* left, the other one is gone
C20_ListedEmptyAfterPartialWipe ==
    /\ prev.op = "wipe" /\ prev.status = "ok" /\ prev.solo
    /\ ListReturned /\ last.solo
    /\ last.files = <<>>
    /\ last.pre = <<>>
    /\ Cardinality(DOMAIN blobs) = 1
    /\ nfaults = 1

\* C23: the content of every record of the index is no longer than the
\* 10,000 bytes kept of a text and the marker that states its length
C23_StoredContentBounded ==
    \A i \in 1..Len(index) :
        TextLen(index[i].content) <= TruncateAt + MarkerLen(index[i].size)

\* C24: no two records of the index have the same id
C24_IdsUnique ==
    \A i, j \in 1..Len(index) : index[i].id = index[j].id => i = j

\* C24 (witness): an upload from a path has returned and the index holds
\* its record after the two it held before
C24_ThirdRecordAdded ==
    /\ last.op = "uploadFromPath" /\ last.status = "ok"
    /\ Len(index) = 3
    /\ index[3].id = last.rec.id

\* C25: while no commands overlap, no step takes the conversation of a
\* record away: a record of the index that has a conversation and is still
\* in the index after the step has a conversation after it
C25_AssociationKept ==
    [][~raced'
          => \A i \in 1..Len(index), j \in 1..Len(index') :
                (index[i].id = index'[j].id /\ index[i].conversation_id # None)
                   => index'[j].conversation_id # None]_vars

\* C25 (witness): a toggle has returned after a link to a conversation, and
\* the record it toggled still has that conversation
C25_ToggledAfterLink ==
    /\ ~raced
    /\ prev.op = "link" /\ prev.status = "ok"
    /\ last.op = "toggle" /\ last.status = "ok"
    /\ RecordOf(index, last.id).conversation_id = prev.conv
    /\ RecordOf(last.pre, last.id).is_context_enabled

\* C27: when a delete has returned Ok and a toggle, a link or an upload that
\* was in flight with it has returned Ok after it, a list_files called then
\* does not return a record of the deleted id
C27_DeletedStaysDeleted ==
    (/\ Quiescent
     /\ prev.op = "delete" /\ prev.status = "ok"
     /\ last.op \in {"toggle", "link"} \cup Uploads /\ last.status = "ok"
     /\ last.id # prev.id)
       => prev.id \notin SeqIds(Backfill(index))

\* the index has what the command in brief has written when it returned Ok
Committed(call, files) ==
    CASE call.op \in Uploads -> call.id \in SeqIds(files)
      [] call.op = "delete" -> call.id \notin SeqIds(files)
      [] call.op = "toggle" ->
            /\ call.id \in SeqIds(files)
            /\ RecordOf(files, call.id).is_context_enabled = call.flag
      [] call.op = "link" ->
            \A i \in 1..Len(files) :
                files[i].is_context_enabled => files[i].conversation_id = call.conv
      [] OTHER -> TRUE

\* C28: when an upload, a delete, a toggle or a link has returned Ok and a
\* list_files that was in flight with it has returned after it, the index
\* still has what the first has written
C28_ReadKeepsWrite ==
    (/\ Quiescent
     /\ prev.op \in Uploads \cup {"delete", "toggle", "link"} /\ prev.status = "ok"
     /\ last.op = "list")
       => Committed(prev, index)

\* C29: an upload that ran alone and returned an error has left the index
\* and the set of blobs as they were when it was called
C29_FailedUploadLeavesNothing ==
    (last.op \in Uploads /\ last.solo /\ last.status = "err")
       => /\ last.post = last.pre
          /\ last.postBlobs = last.preBlobs

\* C30: an upload from a path that ran alone has left every record that was
\* in the index when it was called in the index, unchanged but for a summary
\* written where it was empty
C30_UploadFromPathOnlyAdds ==
    (last.op = "uploadFromPath" /\ last.solo)
       => \A i \in 1..Len(last.pre) :
             /\ last.pre[i].id \in SeqIds(last.post)
             /\ [RecordOf(last.post, last.pre[i].id) EXCEPT !.summary = last.pre[i].summary]
                   = last.pre[i]

\* the ids of the records of files, in order
IdSeq(files) == [i \in 1..Len(files) |-> files[i].id]

\* new begins with the records of old that it still has, in the order they
\* have in old, and has the records that old has not after them
OrderKept(old, new) ==
    LET kept == SelectSeq(IdSeq(old), LAMBDA id : id \in SeqIds(new))
    IN  /\ Len(kept) <= Len(new)
        /\ SubSeq(IdSeq(new), 1, Len(kept)) = kept
        /\ \A j \in (Len(kept) + 1)..Len(new) : new[j].id \notin SeqIds(old)

\* C32: while no commands overlap, every step leaves the records that stay
\* in the index in their order and puts a new record after them, so that
\* the index, and the list that list_files returns, is in upload order
C32_InsertionOrder ==
    [][~raced'
          => /\ OrderKept(index, index')
             /\ (last'.op = "list" /\ last'.status = "ok")
                   => IdSeq(last'.files) = IdSeq(last'.pre)]_vars

\* C32 (witness): an upload has returned after the delete of the first
\* record: the index holds the second record, then the new one
C32_AppendedAfterDelete ==
    /\ ~raced
    /\ prev.op = "delete" /\ prev.status = "ok" /\ prev.id = 1
    /\ last.op \in Uploads /\ last.status = "ok"
    /\ IdSeq(index) = <<2, last.rec.id>>

\* a toggle_context has returned and no other command was in flight with it
ToggleReturned == last.op = "toggle" /\ last.solo

\* C33 (as claimed): a toggle_context leaves the number of records, the
\* blobs, every other record and, of the record of its id, every field but
\* is_context_enabled and summary as they were
C33_ToggleFrame ==
    ToggleReturned
       => /\ Len(last.post) = Len(last.pre)
          /\ last.postBlobs = last.preBlobs
          /\ \A i \in 1..Len(last.pre) :
                IF last.pre[i].id = last.id
                  THEN [last.post[i] EXCEPT
                            !.is_context_enabled = last.pre[i].is_context_enabled,
                            !.summary = last.pre[i].summary] = last.pre[i]
                  ELSE last.post[i] = last.pre[i]

\* C33 (amended): the same, but that the summary of any record may have been
\* written where it was empty; the flag of the record of the id is negated
\* when the call returns Ok and no flag changes otherwise
C33_ToggleFrameButBackfill ==
    ToggleReturned
       => /\ Len(last.post) = Len(last.pre)
          /\ last.postBlobs = last.preBlobs
          /\ \A i \in 1..Len(last.pre) :
                /\ [last.post[i] EXCEPT
                        !.is_context_enabled = last.pre[i].is_context_enabled,
                        !.summary = last.pre[i].summary] = last.pre[i]
                /\ last.post[i].summary # last.pre[i].summary
                      => SummaryIsEmpty(last.pre[i].summary)
                /\ last.post[i].is_context_enabled # last.pre[i].is_context_enabled
                      <=> (last.pre[i].id = last.id /\ last.status = "ok")

\* C33 (witness): a toggle of the second record has returned Ok and the
\* first record has the summary it lacked before
C33_ToggledSecondHealedFirst ==
    /\ ToggleReturned /\ last.status = "ok"
    /\ last.id = 2
    /\ last.pre[1].id = 1 /\ SummaryIsEmpty(last.pre[1].summary)
    /\ ~SummaryIsEmpty(last.post[1].summary)
    /\ last.post[2].is_context_enabled # last.pre[2].is_context_enabled

\* C34: no upload_file and no store_file_from_path_robust is aborted by the
\* cut of summarize or by the cut at 10000 bytes: each returns (a record or
\* an error) whatever valid UTF-8 the file holds
C34_CutNeverAborts == last.op \in Uploads => last.status # "panic"

(***************************************************************************)
(* Properties of the commands that read the context (CtxSpec).             *)
(***************************************************************************)
\* the blocks of the result made for the record of that id
BlocksOf(blocks, id) == SelectSeq(blocks, LAMBDA b : b.id = id)

\* a get_optimized_context that has returned
OptimizedReturned == last.op = "optimized" /\ last.status = "ok"

\* what extract_file_content makes of record f in the catalog the command
\* has left
Reextracted(f) == ExtractFileContent(index, blobs, f.id)

\* C13 (as stated): every enabled record whose re-extracted content has at
\* most ChunkThreshold characters has exactly one block in the result, and
\* that block is the whole document
C13_SmallDocumentOneBlock ==
    OptimizedReturned
        => \A i \in 1..Len(last.files) :
              LET f == last.files[i]
              IN  (f.is_context_enabled /\ Reextracted(f).ok
                      /\ TextChars(Reextracted(f).text) <= ChunkThreshold)
                    => /\ Len(BlocksOf(last.blocks, f.id)) = 1
                       /\ BlocksOf(last.blocks, f.id)[1].kind = "Document"

\* C13 (amended): such a record has exactly one block, the whole document
\* with the re-extracted text, when that text is not empty, and no block
\* when it is empty
C13_SmallDocumentOneBlockUnlessEmpty ==
    OptimizedReturned
        => \A i \in 1..Len(last.files) :
              LET f == last.files[i]
                  text == Reextracted(f).text
              IN  (f.is_context_enabled /\ Reextracted(f).ok
                      /\ TextChars(text) <= ChunkThreshold)
                    => IF text = ""
                         THEN BlocksOf(last.blocks, f.id) = <<>>
                         ELSE BlocksOf(last.blocks, f.id)
                                 = <<[kind |-> "Document", id |-> f.id,
                                      name |-> f.name, text |-> text, err |-> ""]>>

\* C13 (witness): the result holds the one block of a record whose text has
\* fewer characters than the threshold and more bytes
C13_WideTextOneBlock ==
    /\ OptimizedReturned
    /\ \E i \in 1..Len(last.files) :
          /\ last.files[i].is_context_enabled
          /\ Reextracted(last.files[i]).ok
          /\ TextChars(Reextracted(last.files[i]).text) <= ChunkThreshold
          /\ TextLen(Reextracted(last.files[i]).text) > ChunkThreshold
          /\ Len(BlocksOf(last.blocks, last.files[i].id)) = 1

\* an extract_file_content whose list_files has succeeded
Extracted == last.op = "extract" /\ last.err # "Io"

\* C17: extractContent(id) fails with the not-found error when the index has
\* no record of that id, fails with the other error, that of a blob missing
\* on the file system, when the index has the record and the blob store has
\* no blob of that id, and returns no text in either case
C17_ExtractErrors ==
    Extracted
        => /\ last.id \notin SeqIds(last.pre)
                => (last.status = "err" /\ last.err = "NotFound" /\ last.text = "")
           /\ (last.id \in SeqIds(last.pre) /\ last.id \notin last.preBlobs)
                => /\ last.status = "err"
                   /\ last.err = "NotOnFilesystem"
                   /\ last.text = ""
           /\ last.err \in {"NotFound", "NotOnFilesystem"}
                => (last.id \notin SeqIds(last.pre) \/ last.id \notin last.preBlobs)

\* C17 (witness): the extraction of an indexed record of a binary type whose
\* blob is missing has failed
C17_MissingBlobOfBinaryType ==
    /\ Extracted
    /\ last.err = "NotOnFilesystem"
    /\ RecordOf(last.pre, last.id).file_type = "png"

\* the place in files of the record of that id
PlaceOf(files, id) == CHOOSE i \in 1..Len(files) : files[i].id = id

\* the blocks follow the order of the records they were made for
InIndexOrder(blocks, files) ==
    /\ \A k \in 1..Len(blocks) : blocks[k].id \in SeqIds(files)
    /\ \A j, k \in 1..Len(blocks) :
          j < k => PlaceOf(files, blocks[j].id) <= PlaceOf(files, blocks[k].id)

\* the blocks the result is to hold for record f
ExpectedBlocks(f) ==
    IF ~f.is_context_enabled THEN <<>>
    ELSE IF ~Reextracted(f).ok
      THEN <<[kind |-> "Failed", id |-> f.id, name |-> f.name,
              text |-> "", err |-> Reextracted(f).err]>>
    ELSE IF Reextracted(f).text = "" THEN <<>>
    ELSE <<[kind |-> "Document", id |-> f.id, name |-> f.name,
            text |-> Reextracted(f).text, err |-> ""]>>

\* the number of records the loop of get_optimized_context of p is done with
Processed(p) ==
    IF pc[p] = "chunking" THEN loc[p].cursor - 1 ELSE loc[p].cursor

\* C18: a get_optimized_context whose list_files has succeeded returns a
\* result; in it an enabled record whose extraction fails has one block that
\* names it and states the failure, every other enabled record has the block
\* of its text (none for an empty text), a record that is not enabled has
\* none, and the blocks are in index order; inside the loop the same holds
\* of the records it is done with, so that a failure never ends the loop
C18_ExtractionFailureNotFatal ==
    /\ (last.op = "optimized" /\ last.err # "Io")
          => /\ last.status = "ok"
             /\ InIndexOrder(last.blocks, last.files)
             /\ \A i \in 1..Len(last.files) :
                   BlocksOf(last.blocks, last.files[i].id) = ExpectedBlocks(last.files[i])
    /\ \A p \in Procs :
          pc[p] \in {"assemble", "chunking"}
             => /\ InIndexOrder(loc[p].blocks, loc[p].files)
                /\ \A i \in 1..Len(loc[p].files) :
                      BlocksOf(loc[p].blocks, loc[p].files[i].id)
                         = IF i <= Processed(p) THEN ExpectedBlocks(loc[p].files[i])
                                                ELSE <<>>

\* C18 (witness): the result holds the failure block of one record and,
\* after it, the document block of the next
C18_FailedThenDocument ==
    /\ OptimizedReturned
    /\ Len(last.blocks) = 2
    /\ last.blocks[1].kind = "Failed"
    /\ last.blocks[2].kind = "Document"
    /\ last.blocks[1].id # last.blocks[2].id

\* a get_context_content has just returned and its list_files had succeeded
ContextReturned == last.op = "context" /\ last.err # "Io"

\* the number of enabled records among the first n of files
EnabledAmong(files, n) ==
    Cardinality({i \in 1..n : files[i].is_context_enabled})

\* C19: a get_context_content whose list_files has succeeded returns one
\* block for every enabled record, made of its name and its stored content
\* field, whatever its blob holds now, none for any other record, and the
\* blocks in index order
C19_ContextVerbatim ==
    ContextReturned
       => /\ last.status = "ok"
          /\ Len(last.blocks) = EnabledAmong(last.files, Len(last.files))
          /\ \A i \in 1..Len(last.files) :
                LET f == last.files[i]
                    k == EnabledAmong(last.files, i)
                IN  IF f.is_context_enabled
                      THEN last.blocks[k] =
                              [kind |-> "File", id |-> f.id, name |-> f.name,
                               text |-> f.content, err |-> ""]
                      ELSE \A n \in 1..Len(last.blocks) : last.blocks[n].id # f.id

\* C19 (witness): the result is the one block of an enabled record whose
\* blob is gone, so that an extraction of it fails, and the catalog holds a
\* disabled record beside it
C19_StoredContentOfLostBlob ==
    /\ ContextReturned
    /\ Len(last.blocks) = 1
    /\ \E i, j \in 1..Len(last.files) :
          /\ last.files[i].is_context_enabled
          /\ ~Reextracted(last.files[i]).ok
          /\ last.blocks[1].text = last.files[i].content
          /\ ~last.files[j].is_context_enabled

\* C31: an extract_file_content that returns a text for a record whose blob
\* is the file it was made from returns the content stored in the record
\* (no text in use is cut when it is stored from a path)
C31_ExtractionsAgree ==
    (last.op = "extract" /\ last.status = "ok")
       => last.text = RecordOf(last.files, last.id).content

(***************************************************************************)
(* Properties of the extractors (ExtractSpec).                             *)
(***************************************************************************)
\* a text with nothing but whitespace in it
Blank(t) == \A i \in 1..Len(t) : IsWhitespace(t[i])

\* extract_pdf_text has returned after calling a strategy
PdfReturned == ex_pc = "done" /\ ex_doc.kind = "pdf" /\ ex_tried # <<>>

\* C21: when extract_pdf_text has returned after calling a strategy: the
\* in-memory strategy was called first, and the path-based one after it
\* exactly when the in-memory one raised an error; a blank text of either
\* gives "no selectable text", a text that is not blank is returned, an error
\* of both gives "extraction failed" with the error of the second; and the
\* value returned is never an Err
C21_PdfPolicy ==
    PdfReturned
       => LET mem == ex_doc.mem
              path == ex_doc.path
              final == IF mem.ok THEN mem ELSE path
          IN  /\ ex_out.ok
              /\ ex_tried = IF mem.ok THEN <<"mem">> ELSE <<"mem", "path">>
              /\ ex_out.kind = IF ~final.ok THEN "ExtractionFailed"
                               ELSE IF Blank(final.text) THEN "NoSelectableText"
                               ELSE "Text"
              /\ ex_out.kind = "Text" => ex_out.text = final.text
              /\ ex_out.kind = "ExtractionFailed" => ex_out.err = path.err

\* C21 (witness): the in-memory strategy has returned a blank text and
\* extract_pdf_text "no selectable text" without calling the path-based one,
\* which would have found text
C21_BlankNotRetried ==
    /\ PdfReturned
    /\ ex_doc.mem.ok /\ Blank(ex_doc.mem.text) /\ ex_doc.mem.text # <<>>
    /\ ex_doc.path.ok /\ ~Blank(ex_doc.path.text)
    /\ ex_tried = <<"mem">>
    /\ ex_out.kind = "NoSelectableText"

\* extract_docx_text has returned the text of a body
DocxReturned == ex_pc = "done" /\ ex_doc.kind = "docx" /\ ex_out.ok

\* the text a reader of the document sees in a run
Shown(t) == [i \in 1..Len(t) |-> IF t[i] = "&amp;" THEN "&" ELSE t[i]]

\* C22 (as claimed): of a body of N paragraphs, each with one text run of a
\* non-empty text, extract_docx_text returns exactly N lines, the i-th being
\* the text of the i-th paragraph
C22_OneLinePerParagraph ==
    (DocxReturned /\ \A i \in 1..Len(ex_doc.texts) : ex_doc.texts[i] # <<>>)
       => Lines(ex_out.text) = [i \in 1..Len(ex_doc.texts) |-> Shown(ex_doc.texts[i])]

\* C22 (amended): of a body of paragraphs, each with one text run of a text
\* without a line break, extract_docx_text returns one line for every
\* paragraph whose text is not blank and none for the others, in document
\* order, each line being the text without the whitespace around it and not
\* empty
C22_OneLinePerVisibleParagraph ==
    (DocxReturned /\ \A i \in 1..Len(ex_doc.texts) : FirstBreak(ex_doc.texts[i], 1) = 0)
       => LET visible == SelectSeq(ex_doc.texts, LAMBDA t : ~Blank(t))
          IN  /\ Lines(ex_out.text) = [i \in 1..Len(visible) |-> Trim(Shown(visible[i]))]
              /\ \A i \in 1..Len(Lines(ex_out.text)) : Lines(ex_out.text)[i] # <<>>

\* C22 (witness): a body of two paragraphs, the first with a space on either
\* side of its word, has given two lines, the first without these spaces
C22_TwoParagraphsTwoLines ==
    /\ DocxReturned
    /\ Len(ex_doc.texts) = 2
    /\ ex_doc.texts[1] = PADDED
    /\ ~Blank(ex_doc.texts[2])
    /\ Len(Lines(ex_out.text)) = 2
    /\ Lines(ex_out.text)[1] = <<"H", "i">>

====
